---- MODULE Spec2Model ----
(***************************************************************************)
(* A model of ludic's element/component core (src/ludic/base.py) with the  *)
(* catalog composites of src/ludic/catalog/headers.py and forms.py.        *)
(*                                                                         *)
(* Strings are sequences of one-character strings, so that escaping,       *)
(* parsing and serialization are computed character by character.          *)
(* Objects live in a heap (a sequence of node records, a node's identity   *)
(* is its index), so that two references to one object are one object.     *)
(***************************************************************************)
EXTENDS Integers, Sequences, FiniteSets

VARIABLES registry, heap, theme, pc, dom, base, ret

vars == <<registry, heap, theme, pc, dom, base, ret>>

(***************************************************************************)
(* Bounds of the model.                                                    *)
(***************************************************************************)
\* the number of constructor calls the program makes
MaxNodes == 2

(***************************************************************************)
(* Strings.                                                                *)
(***************************************************************************)
RECURSIVE Flatten(_)
Flatten(ss) == IF ss = <<>> THEN <<>> ELSE Head(ss) \o Flatten(Tail(ss))

RECURSIVE Repeat(_, _)
Repeat(s, k) == IF k <= 0 THEN <<>> ELSE s \o Repeat(s, k - 1)

\* s has sub at position i
OccursAt(s, sub, i) ==
    /\ i >= 1
    /\ i + Len(sub) - 1 <= Len(s)
    /\ SubSeq(s, i, i + Len(sub) - 1) = sub

Contains(s, sub) == \E i \in 1..(Len(s) + 1) : OccursAt(s, sub, i)

\* the first position >= from where sub occurs in s, or 0
IndexOf(s, sub, from) ==
    LET hits == {i \in from..Len(s) : OccursAt(s, sub, i)}
    IN  IF hits = {} THEN 0 ELSE CHOOSE i \in hits : \A j \in hits : i <= j

StartsWith(s, pre) == OccursAt(s, pre, 1)

EndsWith(s, suf) == OccursAt(s, suf, Len(s) - Len(suf) + 1)

\* html.escape(s) of the standard library, quote=True
EscapeChar(ch) ==
    CASE ch = "&" -> <<"&", "a", "m", "p", ";">>
      [] ch = "<" -> <<"&", "l", "t", ";">>
      [] ch = ">" -> <<"&", "g", "t", ";">>
      [] ch = "\"" -> <<"&", "q", "u", "o", "t", ";">>
      [] ch = "'" -> <<"&", "#", "x", "2", "7", ";">>
      [] OTHER -> <<ch>>

HtmlEscape(s) == Flatten([i \in 1..Len(s) |-> EscapeChar(s[i])])

\* str(i) of a small non-negative integer
IntToStr(i) ==
    LET digit(d) == <<"0", "1", "2", "3", "4", "5", "6", "7", "8", "9">>[d + 1]
    IN  IF i < 10 THEN <<digit(i)>> ELSE <<digit(i \div 10), digit(i % 10)>>

(***************************************************************************)
(* The node types.  A type has a declared name (cls.__name__), for a       *)
(* concrete type a tag name (html_name) and always_pair, the shape of its  *)
(* children and the render() it defines.                                   *)
(***************************************************************************)
NoName == <<>>

ElementType(name, html, pair) ==
    [name |-> name, html_name |-> html, always_pair |-> pair,
     shape |-> "any", render |-> "self"]

ComponentType(name, shape, render) ==
    [name |-> name, html_name |-> NoName, always_pair |-> FALSE,
     shape |-> shape, render |-> render]

\* the types the library declares when it is imported
LibraryTypes == {"div", "b", "br", "h1", "h2", "a", "form",
                 "Anchor", "WithAnchor", "H1", "H2", "Form"}

\* the types a program declares later: a composite whose render() returns
\* itself, and a second type named b
UserTypes == {"Loop", "b2"}

Types == LibraryTypes \cup UserTypes

TypeDef(c) ==
    CASE c = "div"  -> ElementType(<<"d", "i", "v">>, <<"d", "i", "v">>, TRUE)
      [] c = "b"    -> ElementType(<<"b">>, <<"b">>, FALSE)
      [] c = "br"   -> ElementType(<<"b", "r">>, <<"b", "r">>, FALSE)
      [] c = "h1"   -> ElementType(<<"h", "1">>, <<"h", "1">>, FALSE)
      [] c = "h2"   -> ElementType(<<"h", "2">>, <<"h", "2">>, FALSE)
      [] c = "a"    -> ElementType(<<"a">>, <<"a">>, FALSE)
      [] c = "form" -> ElementType(<<"f", "o", "r", "m">>, <<"f", "o", "r", "m">>, TRUE)
      [] c = "b2"   -> ElementType(<<"b">>, <<"s">>, FALSE)
      [] c = "Anchor" ->
            ComponentType(<<"A", "n", "c", "h", "o", "r">>, "any", "Anchor")
      [] c = "WithAnchor" ->
            ComponentType(<<"W", "i", "t", "h", "A", "n", "c", "h", "o", "r">>,
                          "header", "WithAnchor")
      [] c = "H1"   -> ComponentType(<<"H", "1">>, "str", "H")
      [] c = "H2"   -> ComponentType(<<"H", "2">>, "str", "H")
      [] c = "Form" -> ComponentType(<<"F", "o", "r", "m">>, "any", "Form")
      [] c = "Loop" -> ComponentType(<<"L", "o", "o", "p">>, "any", "self")

\* hasattr(node, "html_name")
HasHtmlName(c) == TypeDef(c).html_name # NoName

\* the concrete header a header composite lowers to
HeaderOf(c) == IF c = "H1" THEN "h1" ELSE "h2"

HeaderTypes == {"h1", "h2"}

(***************************************************************************)
(* The registry: _ELEMENT_REGISTRY, a dict from a declared name to a type. *)
(***************************************************************************)
\* the registry as a set of <<name, type>> pairs with one pair per name
RegNames(reg) == {p[1] : p \in reg}

RegLookup(reg, name) == (CHOOSE p \in reg : p[1] = name)[2]

RegTypes(reg) == {p[2] : p \in reg}

(***************************************************************************)
(* Children, attributes and nodes.                                         *)
(***************************************************************************)
\* a child: a plain string, a Safe string, an integer, or a node
StrChild(s) == [t |-> "str", s |-> s, n |-> 0]

SafeChild(s) == [t |-> "safe", s |-> s, n |-> 0]

IntChild(i) == [t |-> "int", s |-> <<>>, n |-> i]

NodeChild(id) == [t |-> "node", s |-> <<>>, n |-> id]

\* a parsed tag handed on as a child: a dict, neither primitive nor node
DictChild(name) == [t |-> "dict", s |-> name, n |-> 0]

\* isinstance(child, str): Safe is a subclass of str
IsStr(ch) == ch.t \in {"str", "safe"}

\* isinstance(child, Safe)
IsSafe(ch) == ch.t = "safe"

\* isinstance(child, PrimitiveChild)
IsPrimitive(ch) == ch.t \in {"str", "safe", "int"}

\* an attribute: a key with a string, a boolean or a node as its value
StrAttr(k, s) == [k |-> k, t |-> "str", s |-> s, n |-> 0]

BoolAttr(k, b) == [k |-> k, t |-> "bool", s |-> <<>>, n |-> IF b THEN 1 ELSE 0]

NodeAttr(k, id) == [k |-> k, t |-> "node", s |-> <<>>, n |-> id]

KeyId == <<"i", "d">>

KeyHref == <<"h", "r", "e", "f">>

KeyTarget == <<"t", "a", "r", "g", "e", "t">>

KeyAnchor == <<"a", "n", "c", "h", "o", "r">>

\* key in attrs
HasKey(attrs, k) == \E i \in 1..Len(attrs) : attrs[i].k = k

\* attrs[key]
AttrAt(attrs, k) == attrs[CHOOSE i \in 1..Len(attrs) : attrs[i].k = k]

\* dict.setdefault(key, value): a present key keeps its value and place, a
\* new key goes last
SetDefault(attrs, a) == IF HasKey(attrs, a.k) THEN attrs ELSE Append(attrs, a)

MkNode(c, attrs, kids) == [cls |-> c, attrs |-> attrs, children |-> kids]

(***************************************************************************)
(* The validators and the parser of ludic.utils.                           *)
(***************************************************************************)
\* the keys a type's attribute schema declares
DeclaredKeys(c) ==
    CASE c = "a" -> {KeyId, KeyHref}
      [] c = "Anchor" -> {KeyTarget}
      [] c \in {"WithAnchor", "H1", "H2"} -> {KeyId, KeyAnchor}
      [] OTHER -> {KeyId}

\* validate_attributes: every key is declared
ValidateAttributes(c, attrs) ==
    \A i \in 1..Len(attrs) : attrs[i].k \in DeclaredKeys(c)

\* validate_elements: the children fit the shape the type declares
ValidateElements(h, c, kids) ==
    /\ \A i \in 1..Len(kids) : kids[i].t # "dict"
    /\ CASE TypeDef(c).shape = "str" -> Len(kids) = 1 /\ IsStr(kids[1])
         [] TypeDef(c).shape = "header" ->
                /\ Len(kids) = 1
                /\ \/ IsStr(kids[1])
                   \/ kids[1].t = "node" /\ h[kids[1].n].cls \in HeaderTypes
         [] OTHER -> TRUE

TextItem(s) == [t |-> "text", s |-> s, kids |-> <<>>]

TagItem(name, kids) == [t |-> "tag", s |-> name, kids |-> kids]

\* parse_elements: text runs and tags, in source order; a tag is <name/> or
\* <name>inner</name>, and its inner text is parsed the same way
RECURSIVE ParseElements(_)
ParseElements(s) ==
    IF s = <<>> THEN <<>>
    ELSE IF s[1] # "<"
    THEN LET lt == IndexOf(s, <<"<">>, 1)
             stop == IF lt = 0 THEN Len(s) + 1 ELSE lt
         IN  <<TextItem(SubSeq(s, 1, stop - 1))>>
                 \o ParseElements(SubSeq(s, stop, Len(s)))
    ELSE LET gt == IndexOf(s, <<">">>, 1)
             empty == s[gt - 1] = "/"
             name == SubSeq(s, 2, IF empty THEN gt - 2 ELSE gt - 1)
             close == <<"<", "/">> \o name \o <<">">>
             at == IndexOf(s, close, gt + 1)
         IN  IF empty
             THEN <<TagItem(name, <<>>)>>
                      \o ParseElements(SubSeq(s, gt + 1, Len(s)))
             ELSE <<TagItem(name, ParseElements(SubSeq(s, gt + 1, at - 1)))>>
                      \o ParseElements(SubSeq(s, at + Len(close), Len(s)))

\* child["children"] as the constructor receives them: text as plain
\* strings, nested tags as the parser's dicts
RawChildren(items) ==
    [i \in 1..Len(items) |->
        IF items[i].t = "text" THEN StrChild(items[i].s)
        ELSE DictChild(items[i].s)]

(***************************************************************************)
(* Construction: Element.__init__ and Safe.parse.  Both return a record    *)
(* with ok, err, the heap h after the call, and the new node's id or the   *)
(* parsed children.  A raised error leaves nothing of the call behind.     *)
(***************************************************************************)
Raised(h, e) ==
    [ok |-> FALSE, err |-> e, h |-> h, id |-> 0, kids |-> <<>>, out |-> <<>>]

Returned(h, id, kids) ==
    [ok |-> TRUE, err |-> "none", h |-> h, id |-> id, kids |-> kids, out |-> <<>>]

\* a call that returns a string
Wrote(h, out) ==
    [ok |-> TRUE, err |-> "none", h |-> h, id |-> 0, kids |-> <<>>, out |-> out]

RECURSIVE New(_, _, _, _, _)
RECURSIVE ParseItems(_, _, _, _)

\* Safe.parse
SafeParse(reg, h, s) == ParseItems(reg, h, ParseElements(s), <<>>)

\* Safe.parse after its constructor call for a tag: on with the next child
ParseAfter(reg, rest, acc, element) ==
    IF ~element.ok THEN element
    ELSE ParseItems(reg, element.h, rest, Append(acc, NodeChild(element.id)))

\* Safe.parse on a tag, passing over a tag that is not registered
ParseTagSkipUnknown(reg, h, child, rest, acc) ==
    IF child.s \notin RegNames(reg) THEN ParseItems(reg, h, rest, acc)
    ELSE ParseAfter(reg, rest, acc,
                    New(reg, h, RegLookup(reg, child.s),
                        RawChildren(child.kids), <<>>))

\* Safe.parse on a tag
ParseTag(reg, h, child, rest, acc) ==
    IF child.s \notin RegNames(reg) THEN Raised(h, "TypeError")
    ELSE ParseAfter(reg, rest, acc,
                    New(reg, h, RegLookup(reg, child.s),
                        RawChildren(child.kids), <<>>))

\* the loop of Safe.parse over the parsed children
ParseItems(reg, h, items, acc) ==
    IF items = <<>> THEN Returned(h, 0, acc)
    ELSE IF Head(items).t = "text"
    THEN ParseItems(reg, h, Tail(items), Append(acc, SafeChild(Head(items).s)))
    ELSE ParseTag(reg, h, Head(items), Tail(items), acc)

\* the children stored without the parse of a sole Safe child
StoredChildrenNoParse(reg, h, kids) == Returned(h, 0, kids)

\* the children Element.__init__ stores, before validation
StoredChildren(reg, h, kids) ==
    IF Len(kids) = 1 /\ IsSafe(kids[1])
    THEN SafeParse(reg, h, kids[1].s)
    ELSE Returned(h, 0, kids)

\* Element.__init__ from validate_elements on; h is the heap at the call
Store(h, c, attrs, new) ==
    IF ~new.ok THEN Raised(h, new.err)
    ELSE IF ~ValidateElements(new.h, c, new.kids) THEN Raised(h, "ShapeError")
    ELSE Returned(Append(new.h, MkNode(c, attrs, new.kids)),
                  Len(new.h) + 1, new.kids)

\* Element.__init__
New(reg, h, c, kids, attrs) ==
    IF ~ValidateAttributes(c, attrs) THEN Raised(h, "ShapeError")
    ELSE Store(h, c, attrs, StoredChildren(reg, h, kids))

(***************************************************************************)
(* Accessors of Element.                                                   *)
(***************************************************************************)
\* Element.has_attributes
HasAttributes(node) == node.attrs # <<>>

\* Element.is_simple
IsSimple(node) == Len(node.children) = 1 /\ IsPrimitive(node.children[1])

\* str(child) of a primitive child
PrimitiveStr(ch) == IF ch.t = "int" THEN IntToStr(ch.n) ELSE ch.s

\* Element.text
RECURSIVE Text(_, _)
Text(h, id) ==
    Flatten([i \in 1..Len(h[id].children) |->
        LET ch == h[id].children[i]
        IN  IF ch.t = "node" THEN Text(h, ch.n) ELSE PrimitiveStr(ch)])

\* Element.attrs_for
AttrsFor(node, c) == SelectSeq(node.attrs, LAMBDA a : a.k \in DeclaredKeys(c))

\* text_to_kebab of the catalog: white space becomes a dash
TextToKebab(s) == [i \in 1..Len(s) |-> IF s[i] = " " THEN "-" ELSE s[i]]

\* " ".join(parts)
RECURSIVE JoinSpace(_)
JoinSpace(parts) ==
    IF parts = <<>> THEN <<>>
    ELSE IF Len(parts) = 1 THEN parts[1]
    ELSE parts[1] \o <<" ">> \o JoinSpace(Tail(parts))

(***************************************************************************)
(* render() of each type.  A call returns ok, err, the heap after it and   *)
(* the id of the node it returns.                                          *)
(***************************************************************************)
\* Element.render, and a composite whose render() returns self
RenderSelf(h, id) == Returned(h, id, <<>>)

\* Anchor.render
RenderAnchor(reg, h, id) ==
    IF ~HasKey(h[id].attrs, KeyTarget) THEN Raised(h, "KeyError")
    ELSE New(reg, h, "a",
             <<IF h[id].children # <<>> THEN h[id].children[1]
               ELSE StrChild(<<"#">>)>>,
             <<StrAttr(KeyHref, <<"#">> \o AttrAt(h[id].attrs, KeyTarget).s)>>)

\* element.attrs.setdefault("id", text_to_kebab(element.text))
FillId(h, e) ==
    [h EXCEPT ![e].attrs = SetDefault(@, StrAttr(KeyId, TextToKebab(Text(h, e))))]

\* WithAnchor.render: the header element, made from a string child or the
\* child itself
AnchorElement(reg, h, first) ==
    IF IsStr(first) THEN New(reg, h, "h1", <<first>>, <<>>)
    ELSE Returned(h, first.n, <<>>)

\* WithAnchor.render: the anchor, self's own or a new one for the
\* element's id
AnchorOf(reg, h, attrs, e) ==
    IF HasKey(attrs, KeyAnchor)
    THEN Returned(h, AttrAt(attrs, KeyAnchor).n, <<>>)
    ELSE New(reg, h, "Anchor", <<>>,
             <<StrAttr(KeyTarget, AttrAt(h[e].attrs, KeyId).s)>>)

\* WithAnchor.render: the div it returns
AnchorDiv(reg, e, anchor) ==
    IF ~anchor.ok THEN anchor
    ELSE New(reg, anchor.h, "div",
             <<NodeChild(e), NodeChild(anchor.id)>>, <<>>)

\* WithAnchor.render once it has its element
AnchorWith(reg, attrs, made) ==
    IF ~made.ok THEN made
    ELSE AnchorDiv(reg, made.id,
                   AnchorOf(reg, FillId(made.h, made.id), attrs, made.id))

\* WithAnchor.render
RenderWithAnchor(reg, h, id) ==
    IF h[id].children = <<>> THEN Raised(h, "IndexError")
    ELSE AnchorWith(reg, h[id].attrs,
                    AnchorElement(reg, h, h[id].children[1]))

\* bool(attrs.get(key)): a node is true when it has children (__len__), a
\* string when it is not empty
Truthy(h, attrs, k) ==
    /\ HasKey(attrs, k)
    /\ CASE AttrAt(attrs, k).t = "node" -> h[AttrAt(attrs, k).n].children # <<>>
         [] AttrAt(attrs, k).t = "bool" -> AttrAt(attrs, k).n = 1
         [] OTHER -> AttrAt(attrs, k).s # <<>>

\* H1.render .. H4.render once the header is made
HeaderWith(reg, h, th, attrs, header) ==
    IF ~header.ok THEN header
    ELSE IF Truthy(h, attrs, KeyAnchor)
    THEN New(reg, header.h, "WithAnchor", <<NodeChild(header.id)>>,
             <<AttrAt(attrs, KeyAnchor)>>)
    ELSE IF th
    THEN New(reg, header.h, "WithAnchor", <<NodeChild(header.id)>>, <<>>)
    ELSE header

\* H1.render .. H4.render
RenderH(reg, h, th, id) ==
    IF h[id].children = <<>> THEN Raised(h, "IndexError")
    ELSE HeaderWith(reg, h, th, h[id].attrs,
                    New(reg, h, HeaderOf(h[id].cls), <<h[id].children[1]>>,
                        AttrsFor(h[id], HeaderOf(h[id].cls))))

\* Form.render
RenderForm(reg, h, id) == New(reg, h, "form", h[id].children, h[id].attrs)

\* node.render(), dispatched on the node's type
RenderKind(h, id) == TypeDef(h[id].cls).render

Render(reg, h, th, id) ==
    CASE RenderKind(h, id) = "Anchor" -> RenderAnchor(reg, h, id)
      [] RenderKind(h, id) = "WithAnchor" -> RenderWithAnchor(reg, h, id)
      [] RenderKind(h, id) = "H" -> RenderH(reg, h, th, id)
      [] RenderKind(h, id) = "Form" -> RenderForm(reg, h, id)
      [] OTHER -> RenderSelf(h, id)

(***************************************************************************)
(* Compact HTML serialization: Element.to_html.                            *)
(***************************************************************************)
\* format_html_attribute: key="value" with the value escaped, the bare key
\* for True, nothing for False
FormatHtmlAttribute(a) ==
    CASE a.t = "bool" -> IF a.n = 1 THEN a.k ELSE <<>>
      [] a.t = "str" -> a.k \o <<"=", "\"">> \o HtmlEscape(a.s) \o <<"\"">>
      [] OTHER -> a.k

\* format_attribute, of the debug form
FormatAttribute(a) ==
    CASE a.t = "bool" -> IF a.n = 1 THEN a.k ELSE <<>>
      [] a.t = "str" -> a.k \o <<"=", "\"">> \o a.s \o <<"\"">>
      [] OTHER -> a.k

\* Element._format_attributes with format_html_attribute
FormatHtmlAttributes(attrs) ==
    JoinSpace([i \in 1..Len(attrs) |-> FormatHtmlAttribute(attrs[i])])

\* Element._format_attributes with its default formatter
FormatAttributes(attrs) ==
    JoinSpace([i \in 1..Len(attrs) |-> FormatAttribute(attrs[i])])

\* default_html_formatter without its test for Safe
FormatPrimitiveEscapeAll(ch) ==
    IF IsStr(ch) THEN HtmlEscape(ch.s) ELSE PrimitiveStr(ch)

\* default_html_formatter on a primitive child
FormatPrimitive(ch) ==
    IF IsStr(ch) /\ ~IsSafe(ch) THEN HtmlEscape(ch.s) ELSE PrimitiveStr(ch)

OpenTag(name) == <<"<">> \o name

CloseTag(name) == <<"<", "/">> \o name \o <<">">>

SelfClose == <<" ", "/", ">">>

RECURSIVE Resolve(_, _, _, _)
RECURSIVE FormatChildren(_, _, _, _, _)

\* to_html's loop after one dom.render(): a render() that returns the node
\* it was called on never leaves the loop
ResolveNext(reg, th, id, r) ==
    IF ~r.ok THEN r
    ELSE IF r.id = id THEN Raised(r.h, "diverges")
    ELSE Resolve(reg, r.h, th, r.id)

\* the loop that opens to_html: render() until a node has a tag name
Resolve(reg, h, th, id) ==
    IF HasHtmlName(h[id].cls) THEN Returned(h, id, <<>>)
    ELSE ResolveNext(reg, th, id, Render(reg, h, th, id))

\* the opening tag with its attributes, not yet closed
TagWithAttributes(node) ==
    OpenTag(TypeDef(node.cls).html_name) \o
        (IF HasAttributes(node)
         THEN <<" ">> \o FormatHtmlAttributes(node.attrs) ELSE <<>>)

\* the pair form around the children's string
EmitPair(node, body) ==
    IF ~body.ok THEN body
    ELSE Wrote(body.h, TagWithAttributes(node) \o <<">">> \o body.out
                           \o CloseTag(TypeDef(node.cls).html_name))

\* to_html from the resolved node on, without its test of always_pair
EmitNoAlwaysPair(reg, h, th, d) ==
    IF h[d].children # <<>>
    THEN EmitPair(h[d], FormatChildren(reg, h, th, h[d].children, <<>>))
    ELSE Wrote(h, TagWithAttributes(h[d]) \o SelfClose)

\* to_html from the resolved node on
Emit(reg, h, th, d) ==
    IF h[d].children # <<>> \/ TypeDef(h[d].cls).always_pair
    THEN EmitPair(h[d], FormatChildren(reg, h, th, h[d].children, <<>>))
    ELSE Wrote(h, TagWithAttributes(h[d]) \o SelfClose)

\* to_html once dom is resolved
EmitResolved(reg, th, r) == IF ~r.ok THEN r ELSE Emit(reg, r.h, th, r.id)

\* to_html without its loop
ToHtmlNoResolve(reg, h, th, id) == Emit(reg, h, th, id)

\* Element.to_html
ToHtml(reg, h, th, id) == EmitResolved(reg, th, Resolve(reg, h, th, id))

\* _format_children after str(child) of a node child: on with the rest
FormatAfter(reg, th, rest, acc, sub) ==
    IF ~sub.ok THEN sub
    ELSE FormatChildren(reg, sub.h, th, rest, acc \o sub.out)

\* Element._format_children with default_html_formatter: str(child) of a
\* node is its to_html()
FormatChildren(reg, h, th, kids, acc) ==
    IF kids = <<>> THEN Wrote(h, acc)
    ELSE IF Head(kids).t = "node"
    THEN FormatAfter(reg, th, Tail(kids), acc,
                     ToHtml(reg, h, th, Head(kids).n))
    ELSE FormatChildren(reg, h, th, Tail(kids),
                        acc \o FormatPrimitive(Head(kids)))

(***************************************************************************)
(* The debug form: Element.to_string.                                      *)
(***************************************************************************)
Indent(pretty, level) == IF pretty THEN Repeat(<<" ", " ">>, level) ELSE <<>>

NewLine == <<"\n">>

RECURSIVE ToString(_, _, _, _)

\* the opening of to_string: the line break, the indent, the type's name
\* and the attributes
StringHead(node, pretty, level) ==
    (IF level > 0 /\ pretty THEN NewLine ELSE <<>>)
        \o Indent(pretty, level) \o OpenTag(TypeDef(node.cls).name)
        \o (IF HasAttributes(node)
            THEN <<" ">> \o FormatAttributes(node.attrs) ELSE <<>>)

\* to_string's children_str
StringChildren(h, node, pretty, level) ==
    Flatten([i \in 1..Len(node.children) |->
        IF IsPrimitive(node.children[i]) THEN PrimitiveStr(node.children[i])
        ELSE ToString(h, node.children[i].n, pretty, level + 1)])

\* to_string's layout of a node with children
StringLayout(node, pretty, indent, name, head, children_str) ==
    IF pretty
    THEN IF IsSimple(node)
         THEN IF HasAttributes(node)
              THEN head \o <<">">> \o NewLine \o indent \o <<" ", " ">>
                       \o children_str \o NewLine \o indent \o CloseTag(name)
              ELSE head \o <<">">> \o children_str \o CloseTag(name)
         ELSE head \o <<">">> \o indent \o <<" ", " ">> \o children_str
                  \o NewLine \o indent \o CloseTag(name)
    ELSE head \o <<">">> \o children_str \o CloseTag(name)

\* to_string with to_html's rule for a node with no children
ToStringAlwaysPair(h, id, pretty, level) ==
    IF h[id].children # <<>>
    THEN StringLayout(h[id], pretty, Indent(pretty, level),
                      TypeDef(h[id].cls).name,
                      StringHead(h[id], pretty, level),
                      StringChildren(h, h[id], pretty, level))
    ELSE IF TypeDef(h[id].cls).always_pair
    THEN StringHead(h[id], pretty, level) \o <<">">>
             \o CloseTag(TypeDef(h[id].cls).name)
    ELSE StringHead(h[id], pretty, level) \o SelfClose

\* Element.to_string
ToString(h, id, pretty, level) ==
    IF h[id].children # <<>>
    THEN StringLayout(h[id], pretty, Indent(pretty, level),
                      TypeDef(h[id].cls).name,
                      StringHead(h[id], pretty, level),
                      StringChildren(h, h[id], pretty, level))
    ELSE StringHead(h[id], pretty, level) \o SelfClose

(***************************************************************************)
(* The inputs of the model: the strings, and the constructor calls made    *)
(* with them.                                                              *)
(***************************************************************************)
\* a plain string with a character that HTML escapes
PlainText == <<"a", " ", "<">>

\* markup of registered types: x><b>a</b>
SafeMarkup == <<"x", ">", "<", "b", ">", "a", "<", "/", "b", ">">>

\* markup whose second tag is registered only once Loop is declared:
\* <b/><Loop/>
SafeLoop == <<"<", "b", "/", ">", "<", "L", "o", "o", "p", "/", ">">>

\* markup whose first tag is registered only once Loop is declared:
\* <Loop/>x
SafeLoopFirst == <<"<", "L", "o", "o", "p", "/", ">", "x">>

\* markup whose first tag names a type that takes one string and gets
\* none, ahead of a tag that may not be registered: <H1/><Loop/>
SafeBadFirst ==
    <<"<", "H", "1", "/", ">", "<", "L", "o", "o", "p", "/", ">">>

\* markup of a header: <h2>a b</h2>
SafeHeader == <<"<", "h", "2", ">", "a", " ", "b", "<", "/", "h", "2", ">">>

IdAttrs == <<StrAttr(KeyId, <<"k", "<">>)>>

NoCall == [c |-> "", kids |-> <<>>, attrs |-> <<>>]

Call(c, kids, attrs) == [c |-> c, kids |-> kids, attrs |-> attrs]

\* constructor calls without a node among the children
LeafCalls ==
    {Call("div", <<>>, <<>>),
     Call("br", <<>>, <<>>),
     Call("br", <<>>, IdAttrs),
     Call("b", <<StrChild(PlainText)>>, <<>>),
     Call("h2", <<StrChild(PlainText)>>, <<>>),
     Call("b", <<IntChild(7)>>, IdAttrs),
     Call("div", <<StrChild(PlainText), SafeChild(SafeMarkup)>>, <<>>),
     Call("div", <<SafeChild(SafeMarkup)>>, <<>>),
     Call("div", <<SafeChild(SafeLoop)>>, <<>>),
     Call("b", <<SafeChild(SafeLoopFirst)>>, <<>>),
     Call("b", <<SafeChild(SafeBadFirst)>>, <<>>),
     Call("H1", <<StrChild(PlainText)>>, IdAttrs),
     Call("H2", <<SafeChild(SafeMarkup)>>, <<>>),
     Call("WithAnchor", <<StrChild(PlainText)>>, <<>>),
     Call("WithAnchor", <<SafeChild(SafeHeader)>>, <<>>),
     Call("Form", <<>>, <<>>),
     Call("Anchor", <<>>, <<StrAttr(KeyTarget, <<"t">>)>>),
     Call("Loop", <<>>, <<>>),
     Call("b2", <<>>, <<>>),
     Call("b", <<>>, <<StrAttr(KeyHref, <<"u">>)>>)}

\* constructor calls with node id among the children
WrapCalls(id) ==
    {Call("div", <<NodeChild(id)>>, <<>>),
     Call("div", <<StrChild(PlainText), NodeChild(id)>>, IdAttrs),
     Call("WithAnchor", <<NodeChild(id)>>, <<>>),
     Call("Form", <<NodeChild(id), SafeChild(SafeMarkup)>>, <<>>)}

Calls(h) == LeafCalls \cup UNION {WrapCalls(id) : id \in 1..Len(h)}

(***************************************************************************)
(* The state machine.  One thread declares types, constructs nodes and     *)
(* calls to_html, to_string and render on them.  pc is its position:       *)
(* idle between calls, resolve inside to_html's loop, spin inside the loop  *)
(* of a child's to_html that never ends, done when a call has              *)
(* returned or raised and ret holds what it gave.  Within a call base is   *)
(* the number of nodes there were when it began and dom is to_html's dom.  *)
(* The nodes a call made are dropped when its result is dropped.           *)
(***************************************************************************)
NoRet == [kind |-> "none", s |-> <<>>, n |-> 0, err |-> "none", call |-> NoCall]

RetNode(id, call) == [NoRet EXCEPT !.kind = "node", !.n = id, !.call = call]

RetStr(kind, s, id) == [NoRet EXCEPT !.kind = kind, !.s = s, !.n = id]

RetErr(op, e, id, call) ==
    [NoRet EXCEPT !.kind = "error", !.err = e, !.n = id, !.call = call, !.s = op]

LibraryRegistry == {<<TypeDef(c).name, c>> : c \in LibraryTypes}

Init ==
    /\ registry = LibraryRegistry
    /\ heap = <<>>
    /\ theme = FALSE
    /\ pc = "idle"
    /\ dom = 0
    /\ base = 0
    /\ ret = NoRet

\* __init_subclass__ that registers the type whatever the registry holds
InitSubclassOverwrite(reg, c) ==
    [ok |-> TRUE,
     reg |-> {p \in reg : p[1] # TypeDef(c).name} \cup {<<TypeDef(c).name, c>>}]

\* the registry after Element.__init_subclass__ for type c, ok or raised
InitSubclass(reg, c) ==
    IF TypeDef(c).name \in RegNames(reg)
    THEN [ok |-> FALSE, reg |-> reg]
    ELSE [ok |-> TRUE, reg |-> reg \cup {<<TypeDef(c).name, c>>}]

\* what a class statement gives: the type's name, or the error raised
DeclareRet(c, r) ==
    IF r.ok THEN [NoRet EXCEPT !.kind = "declared", !.s = TypeDef(c).name]
    ELSE RetErr(TypeDef(c).name, "ImportWarning", 0, NoCall)

\* a class statement that declares type c
DeclareType(c) ==
    /\ pc = "idle"
    /\ c \notin RegTypes(registry)
    /\ registry' = InitSubclass(registry, c).reg
    /\ ret' = DeclareRet(c, InitSubclass(registry, c))
    /\ pc' = "done"
    /\ base' = Len(heap)
    /\ UNCHANGED <<heap, theme, dom>>

\* what a constructor call gives
ConstructRet(call, r) ==
    IF r.ok THEN RetNode(r.id, call) ELSE RetErr(<<>>, r.err, 0, call)

\* a constructor call
Construct(call) ==
    /\ pc = "idle"
    /\ Len(heap) < MaxNodes
    /\ call.c \in RegTypes(registry)
    /\ heap' = New(registry, heap, call.c, call.kids, call.attrs).h
    /\ ret' = ConstructRet(call, New(registry, heap, call.c, call.kids, call.attrs))
    /\ pc' = "done"
    /\ base' = Len(heap)
    /\ UNCHANGED <<registry, theme, dom>>

\* to_html is called on node id, under a theme whose headers have anchors
\* or not
ToHtmlBegin(id, th) ==
    /\ pc = "idle"
    /\ pc' = "resolve"
    /\ dom' = id
    /\ base' = Len(heap)
    /\ theme' = th
    /\ ret' = [NoRet EXCEPT !.kind = "call", !.n = id]
    /\ UNCHANGED <<registry, heap>>

\* the state after dom.render() gave r
Rendered(r) ==
    /\ heap' = r.h
    /\ dom' = IF r.ok THEN r.id ELSE dom
    /\ pc' = IF r.ok THEN pc ELSE "done"
    /\ ret' = IF r.ok THEN ret ELSE RetErr(<<>>, r.err, ret.n, NoCall)

\* one turn of to_html's loop: dom = dom.render().  A render() that returns
\* the node it was called on leaves the state as it was: the loop goes on
\* with nothing changed
ToHtmlRender ==
    /\ pc = "resolve"
    /\ ~HasHtmlName(heap[dom].cls)
    /\ Rendered(Render(registry, heap, theme, dom))
    /\ UNCHANGED <<registry, theme, base>>

\* the state after the rest of to_html gave r
Emitted(r) ==
    /\ heap' = r.h
    /\ pc' = IF ~r.ok /\ r.err = "diverges" THEN "spin" ELSE "done"
    /\ ret' = IF r.ok THEN RetStr("html", r.out, ret.n)
              ELSE IF r.err = "diverges" THEN ret
              ELSE RetErr(<<>>, r.err, ret.n, NoCall)

\* to_html with an if for its while: it goes on after one render()
ToHtmlEmitAfterOneRender ==
    /\ pc = "resolve"
    /\ HasHtmlName(heap[dom].cls) \/ dom # ret.n
    /\ Emitted(Emit(registry, heap, theme, dom))
    /\ UNCHANGED <<registry, theme, dom, base>>

\* the rest of to_html, once dom has a tag name.  A child whose own to_html
\* never leaves its loop keeps this call from returning: the thread stays
\* in that loop (pc = "spin").
ToHtmlEmit ==
    /\ pc = "resolve"
    /\ HasHtmlName(heap[dom].cls)
    /\ Emitted(Emit(registry, heap, theme, dom))
    /\ UNCHANGED <<registry, theme, dom, base>>

\* to_string is called on node id
ToStringCall(id, pretty) ==
    /\ pc = "idle"
    /\ pc' = "done"
    /\ ret' = RetStr(IF pretty THEN "pretty" ELSE "string",
                     ToString(heap, id, pretty, 0), id)
    /\ base' = Len(heap)
    /\ UNCHANGED <<registry, heap, theme, dom>>

\* the state after node id's render() gave r
RenderReturned(id, r) ==
    /\ heap' = r.h
    /\ ret' = IF r.ok THEN [NoRet EXCEPT !.kind = "rendered", !.n = id]
              ELSE RetErr(<<>>, r.err, id, NoCall)
    /\ dom' = r.id

\* render is called on node id
RenderCall(id, th) ==
    /\ pc = "idle"
    /\ pc' = "done"
    /\ RenderReturned(id, Render(registry, heap, th, id))
    /\ base' = Len(heap)
    /\ theme' = th
    /\ UNCHANGED registry

\* the caller goes on: it keeps a node it constructed, and drops any other
\* result and with it the nodes the call made
Return ==
    /\ pc = "done"
    /\ pc' = "idle"
    /\ heap' = IF ret.kind = "node" THEN heap ELSE SubSeq(heap, 1, base)
    /\ ret' = NoRet
    /\ dom' = 0
    /\ base' = 0
    /\ theme' = FALSE
    /\ UNCHANGED registry

Next ==
    \/ \E c \in UserTypes : DeclareType(c)
    \/ \E call \in Calls(heap) : Construct(call)
    \/ \E id \in 1..Len(heap), th \in BOOLEAN : ToHtmlBegin(id, th)
    \/ ToHtmlRender
    \/ ToHtmlEmit
    \/ \E id \in 1..Len(heap), pretty \in BOOLEAN : ToStringCall(id, pretty)
    \/ \E id \in 1..Len(heap), th \in BOOLEAN : RenderCall(id, th)
    \/ Return

Spec == Init /\ [][Next]_vars

\* a call that has begun goes on: the thread is not stopped inside to_html
FairSpec ==
    /\ Spec
    /\ WF_vars(ToHtmlRender)
    /\ WF_vars(ToHtmlEmit)
    /\ WF_vars(Return)

(***************************************************************************)
(* The claims.                                                             *)
(***************************************************************************)
\* to_html has returned a string: dom is the node it serialized
HtmlDone == pc = "done" /\ ret.kind = "html"

\* the position of the > that ends the opening tag of an output
TagEnd(out) == IndexOf(out, <<">">>, 1)

\* what compact serialization is to give for a primitive child
ExpectedPiece(ch) ==
    CASE ch.t = "str" -> HtmlEscape(ch.s)
      [] ch.t = "safe" -> ch.s
      [] OTHER -> IntToStr(ch.n)

ExpectedPieces(kids) == Flatten([i \in 1..Len(kids) |-> ExpectedPiece(kids[i])])

NodePositions(kids) == {i \in 1..Len(kids) : kids[i].t = "node"}

\* the children before the first node child
PrimitivePrefix(kids) ==
    SubSeq(kids, 1,
           IF NodePositions(kids) = {} THEN Len(kids)
           ELSE (CHOOSE i \in NodePositions(kids) :
                     \A j \in NodePositions(kids) : i <= j) - 1)

\* the children after the last node child
PrimitiveSuffix(kids) ==
    SubSeq(kids,
           IF NodePositions(kids) = {} THEN 1
           ELSE (CHOOSE i \in NodePositions(kids) :
                     \A j \in NodePositions(kids) : i >= j) + 1,
           Len(kids))

\* C1: the node to_html serialized, when it has no children, gives a string
\* that ends with " />" and holds no closing tag if always_pair is false,
\* and gives <tag ...></tag> with an empty body if always_pair is true; a
\* node with children always gives the pair form.
C1_SelfClosingRule ==
    HtmlDone =>
        /\ StartsWith(ret.s, OpenTag(TypeDef(heap[dom].cls).html_name))
        /\ (heap[dom].children = <<>> /\ ~TypeDef(heap[dom].cls).always_pair) =>
               /\ EndsWith(ret.s, SelfClose)
               /\ ~Contains(ret.s, <<"<", "/">>)
        /\ (heap[dom].children = <<>> /\ TypeDef(heap[dom].cls).always_pair) =>
               /\ EndsWith(ret.s, CloseTag(TypeDef(heap[dom].cls).html_name))
               /\ TagEnd(ret.s) + Len(CloseTag(TypeDef(heap[dom].cls).html_name))
                      = Len(ret.s)
        /\ heap[dom].children # <<>> =>
               /\ EndsWith(ret.s, CloseTag(TypeDef(heap[dom].cls).html_name))
               /\ ~EndsWith(ret.s, SelfClose)
               /\ TagEnd(ret.s) > 0

\* a node with attributes and no children, of a type that need not pair,
\* has been serialized
C1_Witness ==
    /\ HtmlDone
    /\ heap[dom].children = <<>>
    /\ ~TypeDef(heap[dom].cls).always_pair
    /\ HasAttributes(heap[dom])

\* C2: in the output of to_html every plain string child is escaped and
\* every Safe child is verbatim: the children before the first node child
\* follow the opening tag, and the children after the last node child end
\* right before the closing tag, each in this form.
C2_EscapeUnlessSafe ==
    (HtmlDone /\ heap[dom].children # <<>>) =>
        /\ OccursAt(ret.s, ExpectedPieces(PrimitivePrefix(heap[dom].children)),
                    TagEnd(ret.s) + 1)
        /\ EndsWith(ret.s,
                    ExpectedPieces(PrimitiveSuffix(heap[dom].children))
                        \o CloseTag(TypeDef(heap[dom].cls).html_name))
        /\ NodePositions(heap[dom].children) = {} =>
               Len(ret.s) = TagEnd(ret.s)
                   + Len(ExpectedPieces(heap[dom].children))
                   + Len(CloseTag(TypeDef(heap[dom].cls).html_name))

\* a node with a plain string child that needs escaping and a Safe child
\* with markup has been serialized
C2_Witness ==
    /\ HtmlDone
    /\ \E i, j \in 1..Len(heap[dom].children) :
          /\ heap[dom].children[i].t = "str"
          /\ Contains(heap[dom].children[i].s, <<"<">>)
          /\ heap[dom].children[j].t = "safe"
          /\ Contains(heap[dom].children[j].s, <<"<">>)

\* C3: to_html's loop ends for every node: a call that is resolving its
\* node returns or raises.
C3_ResolutionEnds == (pc = "resolve") ~> (pc = "done")

RECURSIVE RenderTimes(_, _, _, _, _)

RenderTimesNext(reg, th, k, r) ==
    IF ~r.ok THEN r ELSE RenderTimes(reg, r.h, th, r.id, k - 1)

\* the k-th node of the chain n, n.render(), n.render().render(), ...
RenderTimes(reg, h, th, id, k) ==
    IF k = 0 THEN Returned(h, id, <<>>)
    ELSE RenderTimesNext(reg, th, k, Render(reg, h, th, id))

IsTagged(r) == r.ok /\ HasHtmlName(r.h[r.id].cls)

\* the first node of the chain that has a tag name
FirstTagged(reg, h, th, id) ==
    RenderTimes(reg, h, th, id,
                CHOOSE k \in 0..Cardinality(Types) :
                    /\ IsTagged(RenderTimes(reg, h, th, id, k))
                    /\ \A j \in 0..(k - 1) :
                           ~IsTagged(RenderTimes(reg, h, th, id, j))).id

\* C4: the node to_html serializes is the first node with a tag name in the
\* chain n, n.render(), n.render().render(), ...; for a node that has a tag
\* name it is the node itself, and the render() of such a node returns the
\* node and makes nothing.
C4_ResolveFirstTagged ==
    /\ HtmlDone =>
          /\ HasHtmlName(heap[dom].cls)
          /\ dom = FirstTagged(registry, SubSeq(heap, 1, base), theme, ret.n)
          /\ StartsWith(ret.s, OpenTag(TypeDef(heap[dom].cls).html_name))
          /\ ret.s[Len(OpenTag(TypeDef(heap[dom].cls).html_name)) + 1]
                 \in {" ", ">"}
          /\ HasHtmlName(heap[ret.n].cls) => dom = ret.n
    /\ (pc = "done" /\ ret.kind = "rendered" /\ HasHtmlName(heap[ret.n].cls)) =>
          /\ dom = ret.n
          /\ Len(heap) = base

\* to_html of an H1 has gone through WithAnchor to a div
C4_Witness ==
    /\ HtmlDone
    /\ heap[ret.n].cls = "H1"
    /\ heap[dom].cls = "div"
    /\ \E i \in 1..Len(heap) : heap[i].cls = "WithAnchor"

\* C5: no call changes the attrs or the children of a node that exists.
C5_TreeUnchanged ==
    [][\A i \in 1..Len(heap) : i <= Len(heap') => heap'[i] = heap[i]]_vars

\* C6: a class statement for a name the registry holds raises and leaves
\* the registry as it is; a name once registered keeps its type, and no name
\* has two.
C6_FirstDeclarationStays ==
    [][/\ \A p \in registry : p \in registry'
       /\ \A p, q \in registry' : p[1] = q[1] => p = q
       /\ (pc = "idle" /\ pc' = "done" /\ ret'.kind = "declared") =>
              ret'.s \notin RegNames(registry)
       /\ (pc = "idle" /\ pc' = "done" /\ ret'.err = "ImportWarning") =>
              /\ registry' = registry
              /\ ret'.s \in RegNames(registry)]_vars

\* a second type named b has been declared and refused
C6_Witness ==
    /\ pc = "done"
    /\ ret.err = "ImportWarning"
    /\ ret.s = <<"b">>
    /\ RegLookup(registry, <<"b">>) = "b"

\* the constructor was called with one child, a Safe string
SoleSafe(call) == Len(call.kids) = 1 /\ IsSafe(call.kids[1])

\* a constructor call has returned or raised
ConstructDone == pc = "done" /\ ret.call # NoCall

\* the positions, among the parsed children of s, of the tags whose name is
\* not registered
UnknownTags(reg, s) ==
    {i \in 1..Len(ParseElements(s)) :
        /\ ParseElements(s)[i].t = "tag"
        /\ ParseElements(s)[i].s \notin RegNames(reg)}

\* the parse of s did not get past an unregistered tag
ParseRaised(reg, h, s) ==
    /\ ret.kind = "error"
    /\ Len(heap) = base
    /\ ~SafeParse(reg, h, s).ok
    /\ SafeParse(reg, h, s).kids = <<>>

\* the constructor call Safe.parse makes for the i-th parsed child of s
TagCall(reg, h, s, i) ==
    New(reg, h, RegLookup(reg, ParseElements(s)[i].s),
        RawChildren(ParseElements(s)[i].kids), <<>>)

\* the tags of s ahead of position u whose constructor raises
RaisedBefore(reg, h, s, u) ==
    {i \in 1..(u - 1) :
        /\ ParseElements(s)[i].t = "tag"
        /\ ~TagCall(reg, h, s, i).ok}

Min(S) == CHOOSE i \in S : \A j \in S : i <= j

\* a constructor call with a sole Safe child that holds a tag of a name that
\* is not registered, in any position, raises the error of Safe.parse for
\* an unknown tag and leaves no node; Safe.parse itself returns no children.
C7_UnknownTagAlways ==
    (/\ ConstructDone
     /\ SoleSafe(ret.call)
     /\ UnknownTags(registry, ret.call.kids[1].s) # {}) =>
        /\ ParseRaised(registry, heap, ret.call.kids[1].s)
        /\ ret.err = "TypeError"

\* the error that the parse of s raises, u the first unregistered tag
ParseError(reg, h, s, u) ==
    IF RaisedBefore(reg, h, s, u) = {} THEN "TypeError"
    ELSE TagCall(reg, h, s, Min(RaisedBefore(reg, h, s, u))).err

\* C7: a constructor call with a sole Safe child that holds a tag of a name
\* that is not registered, in any position, raises and leaves no node, and
\* Safe.parse returns no children; the error is the one for an unknown tag
\* unless the constructor of a tag ahead of it raised, and then it is that
\* constructor's error.
C7_UnknownTagFails ==
    (/\ ConstructDone
     /\ SoleSafe(ret.call)
     /\ UnknownTags(registry, ret.call.kids[1].s) # {}) =>
        /\ ParseRaised(registry, heap, ret.call.kids[1].s)
        /\ ret.err = ParseError(registry, heap, ret.call.kids[1].s,
                                Min(UnknownTags(registry, ret.call.kids[1].s)))

\* a call has raised for a tag that is not registered and follows one that
\* is
C7_Witness ==
    /\ ConstructDone
    /\ SoleSafe(ret.call)
    /\ UnknownTags(registry, ret.call.kids[1].s) = {2}
    /\ ret.err = "TypeError"

\* the stored children are the expansion of the parsed children: each text
\* run a Safe string, each tag a node of the registered type with the tag's
\* inner text as its children, in source order
IsExpansion(reg, h, stored, items) ==
    /\ Len(stored) = Len(items)
    /\ \A i \in 1..Len(items) :
          IF items[i].t = "text" THEN stored[i] = SafeChild(items[i].s)
          ELSE /\ stored[i].t = "node"
               /\ h[stored[i].n].cls = RegLookup(reg, items[i].s)
               /\ TypeDef(h[stored[i].n].cls).name = items[i].s
               /\ h[stored[i].n].children = RawChildren(items[i].kids)
    /\ \A i, j \in 1..Len(items) :
          (i < j /\ stored[i].t = "node" /\ stored[j].t = "node") =>
              stored[i].n < stored[j].n

\* C8: a node constructed from a sole Safe child stores the expansion of
\* that string, and the expansion is what was validated (a type that takes
\* one string refuses an expansion of any other length); a node constructed
\* from anything else stores the children as supplied, and nothing is
\* parsed.
C8_SoleSafeExpanded ==
    ConstructDone =>
        /\ ret.kind = "node" =>
              /\ heap[ret.n].cls = ret.call.c
              /\ heap[ret.n].attrs = ret.call.attrs
              /\ ret.n = Len(heap)
        /\ (ret.kind = "node" /\ SoleSafe(ret.call)) =>
              /\ IsExpansion(registry, heap, heap[ret.n].children,
                             ParseElements(ret.call.kids[1].s))
              /\ ValidateElements(heap, ret.call.c, heap[ret.n].children)
        /\ (/\ SoleSafe(ret.call)
            /\ TypeDef(ret.call.c).shape = "str"
            /\ Len(ParseElements(ret.call.kids[1].s)) # 1) =>
              ret.kind = "error" /\ ret.err = "ShapeError"
        /\ (ret.kind = "node" /\ ~SoleSafe(ret.call)) =>
              /\ heap[ret.n].children = ret.call.kids
              /\ Len(heap) = base + 1

\* a node has been constructed from a sole Safe child with text and a tag
C8_Witness ==
    /\ ConstructDone
    /\ ret.kind = "node"
    /\ SoleSafe(ret.call)
    /\ \E i, j \in 1..Len(heap[ret.n].children) :
          /\ heap[ret.n].children[i].t = "safe"
          /\ heap[ret.n].children[j].t = "node"

TagStops == {" ", ">", "/"}

\* the name of the tag that opens at position i of s
TagNameAt(s, i) ==
    SubSeq(s, i + 1,
           (CHOOSE j \in (i + 1)..(Len(s) + 1) :
                /\ j = Len(s) + 1 \/ s[j] \in TagStops
                /\ \A m \in (i + 1)..(j - 1) : s[m] \notin TagStops) - 1)

\* the names of the opening tags of s, in order
RECURSIVE TagsFrom(_, _)
TagsFrom(s, i) ==
    IF i > Len(s) THEN <<>>
    ELSE IF s[i] = "<" /\ i < Len(s) /\ s[i + 1] # "/"
    THEN <<TagNameAt(s, i)>> \o TagsFrom(s, i + 1)
    ELSE TagsFrom(s, i + 1)

ActualTags(s) == TagsFrom(s, 1)

RECURSIVE ExpectedTags(_, _, _, _)

\* the tags of the resolved node r and of what is below it; none when the
\* node has no resolved node
ExpectedTagsBelow(reg, th, r) ==
    IF ~r.ok THEN <<>>
    ELSE
    <<TypeDef(r.h[r.id].cls).html_name>> \o
    Flatten([i \in 1..Len(r.h[r.id].children) |->
        CASE r.h[r.id].children[i].t = "node" ->
                 ExpectedTags(reg, r.h, th, r.h[r.id].children[i].n)
          [] r.h[r.id].children[i].t = "safe" ->
                 ActualTags(r.h[r.id].children[i].s)
          [] OTHER -> <<>>])

\* the tag names that the compact form of node id is to hold, in order: at
\* every depth the tag name of the resolved node, and the tags a Safe
\* string child brings
ExpectedTags(reg, h, th, id) ==
    ExpectedTagsBelow(reg, th, Resolve(reg, h, th, id))

\* C9: the output of to_html holds, in child order and at every depth, the
\* tag of each child node's resolved node, and no tag named by the declared
\* name of a composite.
C9_DescendantsResolved ==
    HtmlDone => ActualTags(ret.s) = ExpectedTags(registry, heap, theme, dom)

\* a concrete node with a composite child has been serialized
C9_Witness ==
    /\ HtmlDone
    /\ dom = ret.n
    /\ \E i \in 1..Len(heap[dom].children) :
          /\ heap[dom].children[i].t = "node"
          /\ ~HasHtmlName(heap[heap[dom].children[i].n].cls)

PrettyDone == pc = "done" /\ ret.kind = "pretty"

\* child ch of a node at level 0 is on a line of its own, one unit in
OnOwnLine(out, h, ch) ==
    IF IsPrimitive(ch)
    THEN Contains(out, NewLine \o Indent(TRUE, 1) \o PrimitiveStr(ch) \o NewLine)
    ELSE Contains(out, NewLine \o Indent(TRUE, 1)
                           \o OpenTag(TypeDef(h[ch.n].cls).name))

\* C10: in the pretty form of a node with children, the one child of a
\* simple node with attributes is on its own line one level in, and every
\* child of a node that is not simple is on its own line one level in.
C10_PrettyChildrenOwnLine ==
    (PrettyDone /\ heap[ret.n].children # <<>>) =>
        /\ (IsSimple(heap[ret.n]) /\ HasAttributes(heap[ret.n])) =>
               OnOwnLine(ret.s, heap, heap[ret.n].children[1])
        /\ ~IsSimple(heap[ret.n]) =>
               \A i \in 1..Len(heap[ret.n].children) :
                   OnOwnLine(ret.s, heap, heap[ret.n].children[i])

\* a to_string call, pretty or not, has returned
StringDone == pc = "done" /\ ret.kind \in {"pretty", "string"}

\* out has the label name at position i: "<", the name, then a space or ">"
LabelAt(out, name, i) ==
    /\ OccursAt(out, OpenTag(name), i)
    /\ i + Len(name) + 1 <= Len(out)
    /\ out[i + Len(name) + 1] \in {" ", ">"}

\* the debug form of a node of type c with attributes attrs and no children
ChildlessForm(c, attrs) ==
    OpenTag(TypeDef(c).name)
        \o (IF attrs # <<>> THEN <<" ">> \o FormatAttributes(attrs) ELSE <<>>)
        \o SelfClose

\* C11: the output of to_string, pretty or not, opens with the declared name
\* of the node's type as its label, whatever the node lowers to, and so does
\* the part of each child node; for a node with no children it is
\* '<TypeName attrs />' with no closing tag, whatever always_pair is; and
\* the call makes no node: nothing is rendered.
C11_DebugFormLabels ==
    StringDone =>
        /\ Len(heap) = base
        /\ LabelAt(ret.s, TypeDef(heap[ret.n].cls).name, 1)
        /\ heap[ret.n].children = <<>> =>
              /\ ret.s = ChildlessForm(heap[ret.n].cls, heap[ret.n].attrs)
              /\ EndsWith(ret.s, SelfClose)
              /\ ~Contains(ret.s, <<"<", "/">>)
        /\ heap[ret.n].children # <<>> =>
              EndsWith(ret.s, CloseTag(TypeDef(heap[ret.n].cls).name))
        /\ \A i \in 1..Len(heap[ret.n].children) :
              heap[ret.n].children[i].t = "node" =>
                  \E j \in 2..Len(ret.s) :
                      LabelAt(ret.s,
                              TypeDef(heap[heap[ret.n].children[i].n].cls).name,
                              j)

\* to_string has returned for a node with no children whose type has
\* always_pair
C11_Witness ==
    /\ StringDone
    /\ heap[ret.n].children = <<>>
    /\ TypeDef(heap[ret.n].cls).always_pair

====
